---------------------------- MODULE Spec2Model ----------------------------
(***************************************************************************)
(* Model of minet's scraper compiler (src/minet/scrape/compilation.py).     *)
(*                                                                         *)
(* compile_scraper(definition) walks a nested definition, prints the text  *)
(* of a python function `scrape(root)` line by line and hands that text to *)
(* exec().  The model follows both halves: the recursive walk (one action  *)
(* per step of `recurse`, with the CompilerContext objects, the shared     *)
(* counter and the printed lines as state) and the run of the printed      *)
(* function on a document (one action per executed line).                  *)
(*                                                                         *)
(* Concurrent calls of the printed function are followed line by line as  *)
(* well.  Two further parts model TwitterAPIScraper                        *)
(* (src/minet/twitter/api_scraper.py: guest token, request_search and the  *)
(* search generator) and HypheSpider (src/minet/hyphe/spider.py: the trie  *)
(* and process); each has its own specification and leaves the variables   *)
(* of the other parts alone.                                               *)
(*                                                                         *)
(* A python str is a sequence of characters.  A run of plain letters is    *)
(* written as one element ("href"); a blank, a double quote, a backslash   *)
(* and a brace are elements of their own, since the code embeds strings in *)
(* program text ("""%s""", str.format) and strips blanks.                  *)
(***************************************************************************)
EXTENDS Integers, Sequences, FiniteSets, TLC

VARIABLES
    definition,   \* argument of compile_scraper
    root,         \* argument of scrape: the document element
    call,         \* which compile_scraper call is running (1 or 2)
    pc,           \* position: "start", "recurse", "finish", "run", "returned", "raised"
    stack,        \* activation records of recurse, innermost last
    contexts,     \* CompilerContext objects, in creation order
    counter,      \* next value of the call's itertools.count
    output,       \* lines printed to the StringIO so far
    error,        \* name of the exception raised, "none" otherwise
    ip,           \* run: index of the next line of the printed function
    loops,        \* run: active for loops, innermost last
    value,        \* run: local variables value_N
    element,      \* run: local variables element_N
    elements,     \* run: local variables elements_N
    result,       \* run: value returned by scrape
    first,        \* outcome of the first call, kept for comparison
    calls,        \* concurrent calls of scrape: the activation of each
    frames,       \* concurrent calls of scrape: the local variables of each
    scraper,      \* TwitterAPIScraper: guest_token and cookie
    search,       \* TwitterAPIScraper.search: the state of the generator
    last,         \* TwitterAPIScraper: what the last request_search call did
    trie,         \* HypheSpider.trie: the record set for each prefix
    processed     \* HypheSpider: the last process call and what it returned

\* the state of the calls that run concurrently
callVars == <<calls, frames>>

\* the state of a TwitterAPIScraper and of its search
twitterVars == <<scraper, search, last>>

\* the state of a HypheSpider
spiderVars == <<trie, processed>>

\* what compile_scraper and a single call of scrape leave alone
otherVars == <<callVars, twitterVars, spiderVars>>

\* the state of compile_scraper and of the calls of scrape
scrapeVars == <<definition, root, call, pc, stack, contexts, counter, output,
                error, ip, loops, value, element, elements, result, first,
                callVars>>

vars == <<definition, root, call, pc, stack, contexts, counter, output, error,
          ip, loops, value, element, elements, result, first, otherVars>>

---------------------------------------------------------------------------
(* Bounds of the model *)

\* most elements a document holds under its root
MaxItems == 3
\* most characters of a bare string definition drawn from Chars
MaxStrLen == 2

---------------------------------------------------------------------------
(* Characters and strings *)

Q  == "\""
BS == "\\"
SP == " "
LB == "{"
RB == "}"

\* s[i..] as a sequence
Drop(s, n) == SubSeq(s, n + 1, Len(s))

RECURSIVE LStrip(_)
LStrip(s) == IF s # <<>> /\ Head(s) = SP THEN LStrip(Tail(s)) ELSE s

RECURSIVE RStrip(_)
RStrip(s) == IF s # <<>> /\ s[Len(s)] = SP THEN RStrip(SubSeq(s, 1, Len(s) - 1)) ELSE s

\* str.strip(): leading and trailing whitespace removed
Strip(s) == RStrip(LStrip(s))

---------------------------------------------------------------------------
(* Program text: what python reads back from """%s""" *)

LitOk(s)  == [ok |-> TRUE,  s |-> s]
LitError  == [ok |-> FALSE, s |-> <<>>]

\* The character(s) a backslash escape stands for.  \" and \\ drop the
\* backslash; the letters of the model ("h" and the words) start no escape
\* python knows, so the backslash stays.
Unescape(c) == IF c \in {Q, BS} THEN <<c>> ELSE <<BS, c>>

StartsTriple(t) == Len(t) >= 3 /\ t[1] = Q /\ t[2] = Q /\ t[3] = Q

\* python's tokenizer on the text that follows an opening """ (ScanTriple),
\* an opening " (ScanSingle) and a closed literal (ScanAfter: an adjacent
\* literal is concatenated, anything else is a syntax error).  acc is the
\* value read so far.
RECURSIVE ScanTriple(_, _), ScanSingle(_, _), ScanAfter(_, _)
ScanTriple(t, acc) ==
    IF t = <<>> THEN LitError
    ELSE IF t[1] = BS
         THEN IF Len(t) < 2 THEN LitError
              ELSE ScanTriple(Drop(t, 2), acc \o Unescape(t[2]))
    ELSE IF StartsTriple(t) THEN ScanAfter(Drop(t, 3), acc)
    ELSE ScanTriple(Tail(t), acc \o <<t[1]>>)

ScanSingle(t, acc) ==
    IF t = <<>> THEN LitError
    ELSE IF t[1] = BS
         THEN IF Len(t) < 2 THEN LitError
              ELSE ScanSingle(Drop(t, 2), acc \o Unescape(t[2]))
    ELSE IF t[1] = Q THEN ScanAfter(Tail(t), acc)
    ELSE ScanSingle(Tail(t), acc \o <<t[1]>>)

ScanAfter(t, acc) ==
    IF t = <<>> THEN LitOk(acc)
    ELSE IF StartsTriple(t) THEN ScanTriple(Drop(t, 3), acc)
    ELSE IF t[1] = Q THEN ScanSingle(Tail(t), acc)
    ELSE LitError

\* The str python evaluates """<body>""" to, or a syntax error.
PyLiteral(body) == ScanTriple(body \o <<Q, Q, Q>>, <<>>)

\* str.format on the part of a template that came from a field name:
\* {{ and }} are escapes, any other brace starts or ends a replacement
\* field, and no replacement field a name of the model can spell exists.
RECURSIVE IndexOf(_, _, _)
IndexOf(s, c, i) ==
    IF i > Len(s) THEN 0 ELSE IF s[i] = c THEN i ELSE IndexOf(s, c, i + 1)

FmtOk(s)    == [err |-> "none", s |-> s]
FmtError(e) == [err |-> e, s |-> <<>>]

RECURSIVE FormatScan(_, _)
FormatScan(t, acc) ==
    IF t = <<>> THEN FmtOk(acc)
    ELSE IF t[1] = LB
         THEN IF Len(t) >= 2 /\ t[2] = LB THEN FormatScan(Drop(t, 2), acc \o <<LB>>)
              ELSE LET close == IndexOf(t, RB, 2)
                       open  == IndexOf(t, LB, 2)
                   IN  IF close = 0 \/ (open # 0 /\ open < close) THEN FmtError("ValueError")
                       ELSE IF close = 2 THEN FmtError("IndexError")
                       ELSE FmtError("KeyError")
    ELSE IF t[1] = RB
         THEN IF Len(t) >= 2 /\ t[2] = RB THEN FormatScan(Drop(t, 2), acc \o <<RB>>)
              ELSE FmtError("ValueError")
    ELSE FormatScan(Tail(t), acc \o <<t[1]>>)

FormatText(s) == FormatScan(s, <<>>)

---------------------------------------------------------------------------
(* Python values a definition is made of *)

NoItems == <<>>

PyNone          == [t |-> "NoneType",   s |-> <<>>, items |-> NoItems]
PyInt           == [t |-> "int",        s |-> <<>>, items |-> NoItems]
PyStr(s)        == [t |-> "str",        s |-> s,    items |-> NoItems]
\* a list: its elements are the v of the items
PyList(vs)      == [t |-> "list",       s |-> <<>>,
                    items |-> [i \in 1..Len(vs) |-> [k |-> <<>>, v |-> vs[i]]]]
\* a dict: its items in insertion order
PyDict(items)   == [t |-> "dict",       s |-> <<>>, items |-> items]
Item(k, v)      == [k |-> k, v |-> v]

ITERATOR == <<"iterator">>
FIELDS   == <<"fields">>
ITEM     == <<"item">>
TEXT     == <<"text">>
HREF     == <<"href">>
TITLE    == <<"title">>
LI       == <<"li">>
ANCHOR   == <<"a">>

\* minet.scrape.constants.EXTRACTOR_NAMES: the recognized extractor names
EXTRACTOR_NAMES == {TEXT}

\* class FieldsNode: a wrapper around the value of a `fields` key
FieldsNode(d) == [t |-> "FieldsNode", s |-> <<>>, items |-> <<Item(<<>>, d)>>]
\* FieldsNode.unwrap
unwrap(node) == node.items[1].v

\* `key in node` for a dict (its keys) and a list (its elements)
Contains(node, key) ==
    IF node.t = "dict" THEN \E i \in 1..Len(node.items) : node.items[i].k = key
    ELSE \E i \in 1..Len(node.items) : node.items[i].v = PyStr(key)

\* node[key] of a dict that has the key
GetItem(node, key) ==
    node.items[CHOOSE i \in 1..Len(node.items) : node.items[i].k = key].v

\* dict.get(key): None when the key is missing
DictGet(node, key) == IF Contains(node, key) THEN GetItem(node, key) ELSE PyNone

---------------------------------------------------------------------------
(* Documents: the parsed tree the printed function is run on *)

NoAttrs == [a \in {} |-> <<>>]

Element(tag, text, attrs, children) ==
    [tag |-> tag, text |-> text, attrs |-> attrs, children |-> children]

\* the values scrape can return
Null       == [k |-> "Null", s |-> <<>>, keys |-> <<>>, items |-> <<>>]
Text(s)    == [k |-> "Text", s |-> s,    keys |-> <<>>, items |-> <<>>]
List(vs)   == [k |-> "List", s |-> <<>>, keys |-> <<>>, items |-> vs]
Map(ks, vs) == [k |-> "Map", s |-> <<>>, keys |-> ks,   items |-> vs]

RECURSIVE Flatten(_)
Flatten(ss) == IF ss = <<>> THEN <<>> ELSE Head(ss) \o Flatten(Tail(ss))

\* element.get_text(): the strings of the element and of its descendants,
\* in document order
RECURSIVE get_text(_)
get_text(e) ==
    e.text \o Flatten([i \in 1..Len(e.children) |-> get_text(e.children[i])])

\* element.get(name): the attribute's value, None when it has none
get(e, name) == IF name \in DOMAIN e.attrs THEN Text(e.attrs[name]) ELSE Null

\* the descendants of an element in document order
RECURSIVE Descendants(_)
Descendants(e) ==
    Flatten([i \in 1..Len(e.children) |->
                <<e.children[i]>> \o Descendants(e.children[i])])

\* element.select(selector) for a tag selector: the matching descendants in
\* document order
select(e, selector) == SelectSeq(Descendants(e), LAMBDA d : d.tag = selector)

---------------------------------------------------------------------------
(* Inputs: the definitions compiled and the documents scraped *)

\* characters a bare string definition is drawn from
Chars == {"h", Q, BS}

\* all strings over cs of length 1..n
RECURSIVE StringsUpTo(_, _)
StringsUpTo(cs, n) ==
    IF n = 0 THEN {}
    ELSE LET shorter == StringsUpTo(cs, n - 1)
         IN  {<<c>> : c \in cs} \cup shorter \cup
             {<<c>> \o t : c \in cs, t \in shorter}

BareStrings == {PyStr(s) : s \in StringsUpTo(Chars, MaxStrLen)}

Leaves    == {PyNone, PyStr(TEXT), PyStr(HREF)}
Selectors == {LI, ANCHOR}

\* definitions that nest the sub-spec v one level deeper: as the item of an
\* iterator, as a field of an iterator's `fields`, as a field of a mapping
Fields2(k1, v1, k2, v2) == PyDict(<<Item(k1, v1), Item(k2, v2)>>)

Wrappers(v) ==
    {PyDict(<<Item(ITERATOR, PyStr(LI)), Item(ITEM, v)>>),
     PyDict(<<Item(ITERATOR, PyStr(LI)),
              Item(FIELDS, Fields2(TITLE, v, HREF, PyStr(HREF)))>>),
     PyDict(<<Item(ITERATOR, PyStr(ANCHOR)),
              Item(FIELDS, PyDict(<<Item(TITLE, v)>>))>>),
     PyDict(<<Item(TITLE, v)>>)}

\* definitions nested at most d deep
RECURSIVE Specs(_)
Specs(d) ==
    IF d = 0 THEN Leaves
    ELSE Leaves
         \cup {PyDict(<<Item(ITERATOR, PyStr(sel))>>) : sel \in Selectors}
         \cup UNION {Wrappers(v) : v \in Specs(d - 1)}

\* values that are no definition, alone and inside one, and mappings whose
\* keys or body are unusual
Odd ==
    {PyInt, PyList(<<>>), PyList(<<PyStr(ITERATOR)>>),
     PyDict(<<>>),
     Fields2(TITLE, PyNone, HREF, PyStr(HREF)),
     PyDict(<<Item(ITERATOR, PyStr(LI)),
              Item(FIELDS, Fields2(HREF, PyStr(HREF), TITLE, PyNone))>>),
     PyDict(<<Item(ITERATOR, PyStr(LI)),
              Item(FIELDS, Fields2(HREF, PyStr(HREF), TITLE,
                                   PyDict(<<Item(ITERATOR, PyStr(ANCHOR))>>)))>>),
     Fields2(HREF, PyStr(HREF), TITLE, PyDict(<<Item(TITLE, PyNone)>>)),
     PyDict(<<Item(ITERATOR, PyStr(LI)), Item(ITEM, PyList(<<>>))>>),
     PyDict(<<Item(ITERATOR, PyStr(LI)), Item(ITEM, PyInt)>>),
     PyDict(<<Item(ITERATOR, PyStr(LI)), Item(FIELDS, PyNone)>>),
     PyDict(<<Item(ITERATOR, PyStr(LI)), Item(FIELDS, PyDict(<<>>))>>),
     PyDict(<<Item(ITERATOR, PyStr(LI)),
              Item(FIELDS, PyDict(<<Item(TITLE, PyList(<<>>))>>))>>),
     PyDict(<<Item(ITERATOR, PyStr(LI)),
              Item(FIELDS, PyDict(<<Item(TITLE, PyNone)>>)),
              Item(ITEM, PyStr(HREF))>>),
     PyDict(<<Item(ITEM, PyStr(HREF)),
              Item(ITERATOR, PyStr(LI))>>),
     PyDict(<<Item(ITERATOR, PyStr(LI)),
              Item(FIELDS, PyDict(<<Item(<<LB>>, PyNone)>>))>>),
     PyDict(<<Item(ITERATOR, PyStr(LI)),
              Item(FIELDS, PyDict(<<Item(<<"h", Q>>, PyNone)>>))>>),
     PyDict(<<Item(ITERATOR, PyStr(LI)),
              Item(FIELDS, PyDict(<<Item(<<LB, LB>>, PyNone)>>))>>)}

\* nesting depth of the definitions
MaxDepth == 2

Definitions == Specs(MaxDepth) \cup BareStrings \cup Odd

\* an <li> with an href and blanks around its text, and an <li> without
\* attributes that wraps an <a>
LiPlain == Element(LI, <<SP, "p", SP>>, [a \in {HREF} |-> <<"u">>], <<>>)
LiLink  == Element(LI, <<"q">>, NoAttrs,
                   <<Element(ANCHOR, <<"x", SP>>, [a \in {HREF} |-> <<"v">>], <<>>)>>)
LiKinds == {LiPlain, LiLink}

\* all sequences over S of length at most n
RECURSIVE SeqsUpTo(_, _)
SeqsUpTo(S, n) ==
    IF n = 0 THEN {<<>>}
    ELSE LET shorter == SeqsUpTo(S, n - 1)
         IN  shorter \cup {<<x>> \o t : x \in S, t \in shorter}

\* a <ul> holding up to MaxItems <li>, or a single <li>
Documents ==
    {Element(<<"ul">>, <<SP>>, NoAttrs, lis) : lis \in SeqsUpTo(LiKinds, MaxItems)}
    \cup LiKinds

---------------------------------------------------------------------------
(* CompilerContext and the lines it prints *)

\* container_key: None until a field is being compiled
NoKey      == [isNone |-> TRUE,  k |-> <<>>]
\* line 127 left out: container_key stays None
KeyNeverSet(k) == NoKey
Key(k)     == [isNone |-> FALSE, k |-> k]
\* '%s' % container_key
KeyText(ck) == IF ck.isNone THEN <<"None">> ELSE ck.k

Name(name, n) == [name |-> name, n |-> n]

\* CompilerContext.__init__: identifier is the value drawn from the counter;
\* parent is the index of the parent object in contexts, 0 for None
CompilerContext(cnt, level, var, container, parent) ==
    [level |-> level, identifier |-> cnt, container |-> container, var |-> var,
     parent |-> parent, container_type |-> "var", container_key |-> NoKey]

\* a counter that outlives the call: it goes on where it stopped
StartCounterShared(prev) == prev

\* line 21: itertools.count(0) of a context built without a counter; prev
\* is where the counter of the previous compile_scraper call stopped
StartCounter(prev) == 0

\* an expression of the printed program
Expr(e, n, lit) == [e |-> e, n |-> n, lit |-> lit]
NoExpr          == Expr("", 0, <<>>)

\* a line of the printed program: indent counts the two-blank steps in
\* front of it, n and m are the numbers in its variable names, text is the
\* characters put between triple quotes
Line(indent, op, n, m, text, expr) ==
    [indent |-> indent, op |-> op, n |-> n, m |-> m, text |-> text, expr |-> expr]

\* the three lines compile_scraper prints before the walk
Header ==
    << Line(0, "def", 0, 0, <<>>, NoExpr),
       Line(1, "assign", 0, 0, <<>>, Expr("None", 0, <<>>)),
       Line(1, "bind", 1, 0, <<>>, Expr("root", 0, <<>>)) >>

ReturnLine == Line(1, "return", 0, 0, <<>>, NoExpr)

Printed(line)  == [err |-> "none", line |-> line]
PrintError(e)  == [err |-> e, line |-> Line(0, "", 0, 0, <<>>, NoExpr)]

\* descend keeping the identifier of the context it is called on, as linger
\* does
descendSameIdentifier(ctxs, self, cnt) ==
    [CompilerContext(cnt, ctxs[self].level + 1,
                     Name("element", ctxs[self].identifier),
                     Name("value", ctxs[self].identifier), self)
        EXCEPT !.identifier = ctxs[self].identifier]

\* CompilerContext.descend, given the value the counter yields
descend(ctxs, self, cnt) ==
    CompilerContext(cnt, ctxs[self].level + 1,
                    Name("element", ctxs[self].identifier),
                    Name("value", ctxs[self].identifier), self)

\* CompilerContext.linger, given the value the counter yields
linger(ctxs, self, cnt) ==
    [CompilerContext(cnt, ctxs[self].level,
                     Name("element", ctxs[self].identifier),
                     Name("value", ctxs[self].identifier), self)
        EXCEPT !.identifier = ctxs[self].identifier]

\* CompilerContext.yield_to_parent: the line that hands expr to the
\* parent's container, or the exception str.format raises on the key
yield_to_parent(ctxs, self, expr) ==
    LET c == ctxs[self]
        p == ctxs[c.parent]
    IN  IF p.container_type = "list"
        THEN Printed(Line(c.level, "append", p.identifier, 0, <<>>, expr))
        ELSE IF p.container_type = "dict"
        THEN LET f == FormatText(KeyText(p.container_key))
             IN  IF f.err # "none" THEN PrintError(f.err)
                 ELSE Printed(Line(c.level, "setitem", p.identifier, 0, f.s, expr))
        ELSE Printed(Line(c.level, "assign", p.identifier, 0, <<>>, expr))

\* an activation of recurse(node, context): at is the place it has reached,
\* i the index of the next field
Frame(node, ctx, at, i) == [node |-> node, ctx |-> ctx, at |-> at, i |-> i]

Top == stack[Len(stack)]
Pop == SubSeq(stack, 1, Len(stack) - 1)

\* line 110 without its second disjunct
IsDefaultNoneOnly(node) == node.t = "NoneType"

\* line 110: None, or a str that names an extractor
IsDefault(node) ==
    node.t = "NoneType" \/ (node.t = "str" /\ node.s \in EXTRACTOR_NAMES)

\* lines 143-146 with the two keys tested in the other order
IteratorBodyItemFirst(node) ==
    IF Contains(node, ITEM) THEN GetItem(node, ITEM)
    ELSE IF Contains(node, FIELDS) THEN FieldsNode(GetItem(node, FIELDS))
    ELSE PyNone

\* lines 143-146: the node walked as the body of an iterator
IteratorBody(node) ==
    IF Contains(node, FIELDS) THEN FieldsNode(GetItem(node, FIELDS))
    ELSE DictGet(node, ITEM)

---------------------------------------------------------------------------
(* TwitterAPIScraper (src/minet/twitter/api_scraper.py) *)

\* python's None where the other values are strings
None == "None"

\* line 40: the number of tweets asked per page
DEFAULT_COUNT == 100

\* line 273: stop_after_attempt(6)
stop_after_attempt == 6

\* largest small limit given to search
MaxLimit == 2
\* most pages one search fetches
MaxPages == 2
\* most calls of search on one scraper
MaxSearches == 2

\* the limit argument of search: None, or a number
NoLimit   == [isNone |-> TRUE,  n |-> 0]
Limit(n)  == [isNone |-> FALSE, n |-> n]

Limits ==
    {NoLimit} \cup {Limit(n) : n \in 0..MaxLimit}
    \cup {Limit(n) : n \in (DEFAULT_COUNT - 1)..(DEFAULT_COUNT + 1)}

\* what comes back from the request of acquire_guest_token: the transport
\* error, the status, the guest token in the page (None when the pattern is
\* not there) and the Set-Cookie header (None when the response has none)
AcquireResponse(err, status, gt, set_cookie) ==
    [err |-> err, status |-> status, gt |-> gt, set_cookie |-> set_cookie]

AcquireResponses ==
    {AcquireResponse(FALSE, 200, "gt", "sc"),
     AcquireResponse(FALSE, 200, "gt", None),
     AcquireResponse(FALSE, 200, None, "sc"),
     AcquireResponse(FALSE, 403, None, None),
     AcquireResponse(TRUE, 0, None, None)}

\* what comes back from the search request: the transport error, the
\* status, whether the payload has the expected shape, its cursor and the
\* number of tweets in it
SearchResponse(err, status, wellformed, cursor, tweets) ==
    [err |-> err, status |-> status, wellformed |-> wellformed,
     cursor |-> cursor, tweets |-> tweets]

SearchResponses ==
    {SearchResponse(TRUE, 0, FALSE, None, 0),
     SearchResponse(FALSE, 429, FALSE, None, 0),
     SearchResponse(FALSE, 500, FALSE, None, 0),
     SearchResponse(FALSE, 200, FALSE, None, 0)}
    \cup {SearchResponse(FALSE, 200, TRUE, c, n) :
             c \in {None, "cursor"}, n \in {0, 1, DEFAULT_COUNT}}

\* lines 192-194: reset
reset == [guest_token |-> None, cookie |-> None]

\* no search request was sent
NoRequest == [guest_token |-> None, cookie |-> None, cursor |-> None]

\* lines 203-221: acquire_guest_token on the scraper s, given the response:
\* the scraper afterwards and the exception raised.  guest_token is
\* assigned (line 216) before the Set-Cookie header is read (line 218).
acquire_guest_token(s, r) ==
    IF r.err \/ r.status >= 400
    THEN [s |-> s, error |-> "TwitterPublicAPIInvalidResponseError"]
    ELSE IF r.gt = None
    THEN [s |-> s, error |-> "TwitterGuestTokenError"]
    ELSE IF r.set_cookie = None
    THEN [s |-> [s EXCEPT !.guest_token = r.gt], error |-> "KeyError"]
    ELSE [s |-> [guest_token |-> r.gt, cookie |-> "sc, gt=gt"],
          error |-> "none"]

\* the outcome of a request_search call
Outcome(s, e, acquire, sent, request, cursor, tweets) ==
    [s |-> s, error |-> e, acquire |-> acquire, sent |-> sent,
     request |-> request, cursor |-> cursor, tweets |-> tweets]

\* lines 63-71: ensure_guest_token, the part before the method is called
ensure_guest_token(s, r) ==
    IF s.guest_token = None
    THEN LET a == acquire_guest_token(s, r)
         IN  [s |-> a.s, error |-> a.error, ran |-> TRUE]
    ELSE [s |-> s, error |-> "none", ran |-> FALSE]

\* lines 223-258: request_search(query, cursor) on the scraper s, given the
\* responses to the two requests it can make
request_search(s, cursor, acq, resp) ==
    LET e   == ensure_guest_token(s, acq)
        how == IF ~e.ran THEN "skipped"
               ELSE IF e.error = "none" THEN "ok" ELSE "failed"
        req == [guest_token |-> e.s.guest_token, cookie |-> e.s.cookie,
                cursor |-> cursor]
    IN  IF e.error # "none"
        THEN Outcome(e.s, e.error, how, FALSE, NoRequest, None, 0)
        ELSE IF resp.err
        THEN Outcome(e.s, "err", how, TRUE, req, None, 0)
        ELSE IF resp.status = 429
        THEN Outcome(reset, "TwitterPublicAPIRateLimitError", how, TRUE, req, None, 0)
        ELSE IF resp.status >= 400
        THEN Outcome(e.s, "TwitterPublicAPIInvalidResponseError", how, TRUE, req,
                     None, 0)
        ELSE IF ~resp.wellformed
        THEN Outcome(e.s, "TwitterPublicAPIParsingError", how, TRUE, req, None, 0)
        ELSE Outcome(e.s, "none", how, TRUE, req, resp.cursor, resp.tweets)

\* lines 267-272: the exceptions the retryer retries on
Retried ==
    {"TwitterPublicAPIRateLimitError", "TwitterPublicAPIInvalidResponseError"}

\* the generator of search before its first step; searches counts the
\* calls of search, asked is the number of tweets yielded when the latest
\* request for a further page was sent (-1: none was)
NoSearch ==
    [pc |-> "idle", limit |-> NoLimit, cursor |-> None, new_cursor |-> None,
     i |-> 0, page |-> 0, rest |-> 0, attempt |-> 0, fetched |-> 0,
     yielded |-> 0, asked |-> -1, error |-> "none", searches |-> 0]

\* no request_search call was made
NoCall ==
    [called |-> FALSE, entry_token |-> None, acquire |-> "skipped",
     sent |-> FALSE, request |-> NoRequest]

\* lines 260-274: search(query, limit) is called and its generator started
Search ==
    /\ search.pc \in {"idle", "returned", "raised"}
    /\ search.searches < MaxSearches
    /\ \E l \in Limits :
          search' = [NoSearch EXCEPT !.pc = "request", !.limit = l,
                                     !.searches = search.searches + 1]
    /\ UNCHANGED <<scraper, last, scrapeVars, spiderVars>>

\* line 277: the retryer calls request_search; it calls it again after an
\* exception it retries on, until the attempts are used up
RequestSearch ==
    /\ search.pc = "request"
    /\ search.fetched < MaxPages
    /\ \E acq \in AcquireResponses, resp \in SearchResponses :
          LET r == request_search(scraper, search.cursor, acq, resp)
              s == [search EXCEPT !.asked = IF r.sent /\ search.fetched > 0
                                             THEN search.yielded ELSE @]
          IN  /\ scraper' = r.s
              /\ last' = [called |-> TRUE, entry_token |-> scraper.guest_token,
                          acquire |-> r.acquire, sent |-> r.sent,
                          request |-> r.request]
              /\ search' =
                    IF r.error = "none"
                    THEN [s EXCEPT !.pc = "tweets", !.new_cursor = r.cursor,
                                   !.page = r.tweets, !.rest = r.tweets,
                                   !.attempt = 0, !.fetched = @ + 1]
                    ELSE IF r.error \notin Retried
                    THEN [s EXCEPT !.pc = "raised", !.error = r.error]
                    ELSE IF search.attempt + 1 >= stop_after_attempt
                    THEN [s EXCEPT !.pc = "raised", !.error = "RetryError"]
                    ELSE [s EXCEPT !.attempt = @ + 1]
    /\ UNCHANGED <<scrapeVars, spiderVars>>

\* lines 279-280: the next tweet of the page is yielded
YieldTweet ==
    /\ search.pc = "tweets"
    /\ search.rest > 0
    /\ search' = [search EXCEPT !.pc = "yielded", !.rest = @ - 1,
                                !.yielded = @ + 1]
    /\ UNCHANGED <<scraper, last, scrapeVars, spiderVars>>

\* lines 282-285: the generator is resumed after a yield
AfterYield ==
    /\ search.pc = "yielded"
    /\ search' = [search EXCEPT
                     !.i = @ + 1,
                     !.pc = IF ~search.limit.isNone /\ search.i + 1 >= search.limit.n
                            THEN "returned" ELSE "tweets"]
    /\ UNCHANGED <<scraper, last, scrapeVars, spiderVars>>

\* lines 287-290: the page is over
PageEnd ==
    /\ search.pc = "tweets"
    /\ search.rest = 0
    /\ search' = IF search.new_cursor = None \/ search.page < DEFAULT_COUNT
                 THEN [search EXCEPT !.pc = "returned"]
                 ELSE [search EXCEPT !.pc = "request",
                                     !.cursor = search.new_cursor]
    /\ UNCHANGED <<scraper, last, scrapeVars, spiderVars>>

NextTwitter ==
    \/ Search
    \/ RequestSearch
    \/ YieldTweet
    \/ AfterYield
    \/ PageEnd

---------------------------------------------------------------------------
(* HypheSpider (src/minet/hyphe/spider.py) *)

\* line 13
VALID_WEBENTITY_STATUSES == {"IN", "OUT", "UNDECIDED", "DISCOVERED"}

\* most links a page holds
MaxLinks == 2

\* the urls of the model, as the sequence of their parts: a site, a page of
\* it, and another site; each is also a prefix the trie can be given
Urls == {<<"a">>, <<"a", "q">>, <<"b">>}

\* trie.match answers None
NoMatch == [id |-> None, status |-> None]

\* trie.match(url): the record set for the longest prefix of the url
match(tr, url) ==
    LET found == {p \in DOMAIN tr :
                     Len(p) <= Len(url) /\ SubSeq(url, 1, Len(p)) = p}
    IN  IF found = {} THEN NoMatch
        ELSE tr[CHOOSE p \in found : \A q \in found : Len(q) <= Len(p)]

\* the responses given to process: urls are the links extract_links finds
\* in the body, each once (unique=True)
Responses ==
    [status : {200, 404}, is_html : BOOLEAN, end_url : Urls,
     urls : {s \in SeqsUpTo(Urls, MaxLinks) :
                \A i, j \in 1..Len(s) : i # j => s[i] # s[j]}]

\* every matched link is followed, whatever its webentity
AnyWebentity(m, webentity) == TRUE

\* line 108: the link stays inside the webentity of the page
SameWebentity(m, webentity) == m.id = webentity.id

\* lines 71-116: process(job, response) with the trie tr: what is returned
process(tr, response) ==
    LET webentity   == match(tr, response.end_url)
        IsIn(url)   == match(tr, url) # NoMatch /\ match(tr, url).status = "IN"
        Inside(url) == SameWebentity(match(tr, url), webentity)
        targets     == SelectSeq(response.urls, IsIn)
    IN  IF \/ response.status # 200
           \/ ~response.is_html
           \/ webentity = NoMatch
           \/ webentity.status # "IN"
        THEN [returned |-> FALSE, webentity_id |-> None, links |-> <<>>,
              urls_to_follow |-> <<>>]
        ELSE [returned |-> TRUE, webentity_id |-> webentity.id,
              links |-> [i \in 1..Len(targets) |->
                            [source_webentity |-> webentity.id,
                             target_webentity |-> match(tr, targets[i]).id,
                             source_url |-> response.end_url,
                             target_url |-> targets[i]]],
              urls_to_follow |-> SelectSeq(targets, Inside)]

\* process has not been called
NoProcess ==
    [called |-> FALSE,
     response |-> [status |-> 404, is_html |-> FALSE, end_url |-> <<"b">>,
                   urls |-> <<>>],
     result |-> [returned |-> FALSE, webentity_id |-> None, links |-> <<>>,
                 urls_to_follow |-> <<>>]]

\* lines 65-69: set(prefix, webentity, status); a status that is not valid
\* raises TypeError and the trie is left as it was.  The trie is filled
\* before the crawl: set is called while no response has been processed.
SpiderSet ==
    /\ ~processed.called
    /\ \E prefix \in Urls, webentity \in {"A", "B"},
          status \in {"IN", "OUT", "in"} :
          trie' = IF status \notin VALID_WEBENTITY_STATUSES THEN trie
                  ELSE [p \in DOMAIN trie \cup {prefix} |->
                           IF p = prefix THEN [id |-> webentity, status |-> status]
                           ELSE trie[p]]
    /\ UNCHANGED <<processed, scrapeVars, twitterVars>>

\* lines 71-116: the crawler hands a response to process
Process ==
    /\ \E response \in Responses :
          processed' = [called |-> TRUE, response |-> response,
                        result |-> process(trie, response)]
    /\ UNCHANGED <<trie, scrapeVars, twitterVars>>

NextSpider ==
    \/ SpiderSet
    \/ Process

---------------------------------------------------------------------------
(* compile_scraper: the walk *)

runVars == <<ip, loops, value, element, elements, result>>

NoLocals == [n \in {} |-> Null]

\* no concurrent call has been made
NoCalls == <<>>

NoFirst == [set |-> FALSE, pc |-> "", error |-> "none", output |-> <<>>,
            result |-> Null]

Init ==
    /\ definition \in Definitions
    /\ root \in Documents
    /\ call = 1
    /\ pc = "start"
    /\ stack = <<>>
    /\ contexts = <<>>
    /\ counter = 0
    /\ output = <<>>
    /\ error = "none"
    /\ ip = 0
    /\ loops = <<>>
    /\ value = NoLocals
    /\ element = NoLocals
    /\ elements = NoLocals
    /\ result = Null
    /\ first = NoFirst
    /\ calls = NoCalls
    /\ frames = NoCalls
    /\ scraper = reset
    /\ search = NoSearch
    /\ last = NoCall
    /\ trie = [p \in {} |-> NoMatch]
    /\ processed = NoProcess

\* an exception leaves compile_scraper or scrape
Raise(e) ==
    /\ pc' = "raised"
    /\ error' = e

\* the walk goes on with the given stack, or is over
Continue(stk) ==
    /\ stack' = stk
    /\ pc' = IF stk = <<>> THEN "finish" ELSE "recurse"
    /\ error' = error

\* lines 86-105 and 150: the header, root_context, initial_context and the
\* first call of recurse
CompileStart ==
    /\ pc = "start"
    /\ LET c0   == StartCounter(counter)
           rc   == CompilerContext(c0, 0, Name("root", 0), Name("main_value", 0), 0)
           ic   == descend(<<rc>>, 1, c0 + 1)
       IN  /\ contexts' = <<rc, ic>>
           /\ counter' = c0 + 2
           /\ output' = Header
           /\ stack' = <<Frame(definition, 2, "enter", 0)>>
    /\ pc' = "recurse"
    /\ UNCHANGED <<otherVars, definition, root, call, error, runVars, first>>

\* lines 110-112: default extraction
RecurseDefault ==
    /\ pc = "recurse" /\ Top.at = "enter"
    /\ IsDefault(Top.node)
    /\ LET c == contexts[Top.ctx]
           y == yield_to_parent(contexts, Top.ctx, Expr("text", c.identifier, <<>>))
       IN  IF y.err # "none"
           THEN Raise(y.err) /\ UNCHANGED <<stack, output>>
           ELSE output' = Append(output, y.line) /\ Continue(Pop)
    /\ UNCHANGED <<otherVars, definition, root, call, contexts, counter, runVars, first>>

\* lines 115-117: attribute
RecurseAttribute ==
    /\ pc = "recurse" /\ Top.at = "enter"
    /\ ~IsDefault(Top.node) /\ Top.node.t = "str"
    /\ LET c == contexts[Top.ctx]
           y == yield_to_parent(contexts, Top.ctx,
                                Expr("get", c.identifier, Top.node.s))
       IN  IF y.err # "none"
           THEN Raise(y.err) /\ UNCHANGED <<stack, output>>
           ELSE output' = Append(output, y.line) /\ Continue(Pop)
    /\ UNCHANGED <<otherVars, definition, root, call, contexts, counter, runVars, first>>

\* lines 120-124: a FieldsNode marks its context a dict and prints the dict
RecurseFields ==
    /\ pc = "recurse" /\ Top.at = "enter"
    /\ Top.node.t = "FieldsNode"
    /\ LET c == contexts[Top.ctx]
       IN  /\ contexts' = [contexts EXCEPT ![Top.ctx].container_type = "dict"]
           /\ output' = Append(output,
                  Line(c.level, "assign", c.identifier, 0, <<>>,
                       Expr("dict", 0, <<>>)))
    /\ stack' = [stack EXCEPT ![Len(stack)].at = "fields", ![Len(stack)].i = 1]
    /\ UNCHANGED <<otherVars, definition, root, call, pc, counter, error, runVars, first>>

\* lines 126-128: the next field: its name becomes container_key and its
\* sub-spec is walked in a lingering context; fields.items() raises when
\* `fields` is no dict
RecurseField ==
    /\ pc = "recurse" /\ Top.at = "fields"
    /\ LET fields == unwrap(Top.node)
       IN  IF fields.t # "dict"
           THEN /\ Raise("AttributeError")
                /\ UNCHANGED <<stack, contexts, counter>>
           ELSE /\ Top.i <= Len(fields.items)
                /\ LET keyed == [contexts EXCEPT ![Top.ctx].container_key =
                                                    Key(fields.items[Top.i].k)]
                   IN  contexts' = Append(keyed, linger(keyed, Top.ctx, counter))
                /\ counter' = counter + 1
                /\ stack' = Append([stack EXCEPT ![Len(stack)].i = Top.i + 1],
                                   Frame(fields.items[Top.i].v, Len(contexts) + 1,
                                         "enter", 0))
                /\ UNCHANGED <<pc, error>>
    /\ UNCHANGED <<otherVars, definition, root, call, output, runVars, first>>

\* lines 130-132: after the last field the dict is handed to the parent
RecurseFieldsYield ==
    /\ pc = "recurse" /\ Top.at = "fields"
    /\ unwrap(Top.node).t = "dict"
    /\ Top.i > Len(unwrap(Top.node).items)
    /\ LET c == contexts[Top.ctx]
           y == yield_to_parent(contexts, Top.ctx, Expr("value", c.identifier, <<>>))
       IN  IF y.err # "none"
           THEN Raise(y.err) /\ UNCHANGED <<stack, output>>
           ELSE output' = Append(output, y.line) /\ Continue(Pop)
    /\ UNCHANGED <<otherVars, definition, root, call, contexts, counter, runVars, first>>

\* what reaches line 135: neither None, nor a str, nor a FieldsNode
ReachesIteratorTest(node) ==
    ~IsDefault(node) /\ node.t \notin {"str", "FieldsNode"}

\* line 135, `'iterator' in node`, on a value that is no container; line
\* 138, node['iterator'], on a list that holds the string
RecurseTypeError ==
    /\ pc = "recurse" /\ Top.at = "enter"
    /\ ReachesIteratorTest(Top.node)
    /\ \/ /\ Top.node.t \notin {"dict", "list"}
          /\ UNCHANGED contexts
       \/ /\ Top.node.t = "list" /\ Contains(Top.node, ITERATOR)
          /\ contexts' = [contexts EXCEPT ![Top.ctx].container_type = "list"]
    /\ Raise("TypeError")
    /\ UNCHANGED <<otherVars, definition, root, call, stack, counter, output, runVars, first>>

\* line 135 is false: recurse returns and nothing is printed
RecurseNothing ==
    /\ pc = "recurse" /\ Top.at = "enter"
    /\ ReachesIteratorTest(Top.node)
    /\ Top.node.t \in {"dict", "list"} /\ ~Contains(Top.node, ITERATOR)
    /\ Continue(Pop)
    /\ UNCHANGED <<otherVars, definition, root, call, contexts, counter, output, runVars, first>>

\* lines 135-141: an iterator marks its context a list and prints the
\* selection, the list and the head of the loop
RecurseIterator ==
    /\ pc = "recurse" /\ Top.at = "enter"
    /\ ReachesIteratorTest(Top.node)
    /\ Top.node.t = "dict" /\ Contains(Top.node, ITERATOR)
    /\ LET c == contexts[Top.ctx]
       IN  /\ contexts' = [contexts EXCEPT ![Top.ctx].container_type = "list"]
           /\ output' = output \o
                << Line(c.level, "select", c.identifier, 0,
                        GetItem(Top.node, ITERATOR).s, NoExpr),
                   Line(c.level, "assign", c.identifier, 0, <<>>,
                        Expr("list", 0, <<>>)),
                   Line(c.level, "for", c.identifier, c.identifier + 1, <<>>,
                        NoExpr) >>
    /\ stack' = [stack EXCEPT ![Len(stack)].at = "body"]
    /\ UNCHANGED <<otherVars, definition, root, call, pc, counter, error, runVars, first>>

\* lines 143-146: the body, `fields` wrapped in a FieldsNode if the key is
\* there, node.get('item') otherwise, is walked in a descended context
RecurseIteratorBody ==
    /\ pc = "recurse" /\ Top.at = "body"
    /\ stack' = Append([stack EXCEPT ![Len(stack)].at = "yield"],
                       Frame(IteratorBody(Top.node), Len(contexts) + 1, "enter", 0))
    /\ contexts' = Append(contexts, descend(contexts, Top.ctx, counter))
    /\ counter' = counter + 1
    /\ UNCHANGED <<otherVars, definition, root, call, pc, output, error, runVars, first>>

\* line 148: the list is handed to the parent
RecurseIteratorYield ==
    /\ pc = "recurse" /\ Top.at = "yield"
    /\ LET c == contexts[Top.ctx]
           y == yield_to_parent(contexts, Top.ctx, Expr("value", c.identifier, <<>>))
       IN  IF y.err # "none"
           THEN Raise(y.err) /\ UNCHANGED <<stack, output>>
           ELSE output' = Append(output, y.line) /\ Continue(Pop)
    /\ UNCHANGED <<otherVars, definition, root, call, contexts, counter, runVars, first>>

---------------------------------------------------------------------------
(* compile_scraper: exec of the printed text *)

\* the lines that open a block
Opens(line) == line.op \in {"def", "for"}

\* the literals of a line
LiteralsOk(line) ==
    /\ line.op \in {"setitem", "select"} => PyLiteral(line.text).ok
    /\ line.expr.e = "get" => PyLiteral(line.expr.lit).ok

\* python's indentation rule: the line after a block opener is indented
\* deeper, any other line is indented as deep as an enclosing block.  stk
\* holds the indentations of the enclosing blocks, innermost last.
RECURSIVE IndentScan(_, _, _, _)
IndentScan(lines, i, stk, opened) ==
    IF i > Len(lines) THEN ~opened
    ELSE LET d == lines[i].indent
         IN  IF opened
             THEN /\ d > stk[Len(stk)]
                  /\ IndentScan(lines, i + 1, Append(stk, d), Opens(lines[i]))
             ELSE /\ \E j \in 1..Len(stk) : stk[j] = d
                  /\ IndentScan(lines, i + 1,
                         SubSeq(stk, 1, CHOOSE j \in 1..Len(stk) : stk[j] = d),
                         Opens(lines[i]))

IndentOk(lines) == IndentScan(lines, 1, <<0>>, FALSE)

\* the exception exec raises on the text, "none" if it compiles
ExecError(lines) ==
    IF \E i \in 1..Len(lines) : ~LiteralsOk(lines[i]) THEN "SyntaxError"
    ELSE IF ~IndentOk(lines) THEN "IndentationError"
    ELSE "none"

\* lines 152-161: the return line is printed and the text is executed; the
\* function is returned unless the text does not compile
CompileFinish ==
    /\ pc = "finish"
    /\ output' = Append(output, ReturnLine)
    /\ LET e == ExecError(output')
       IN  IF e # "none" THEN Raise(e)
           ELSE pc' = "compiled" /\ error' = error
    /\ UNCHANGED <<otherVars, definition, root, call, stack, contexts, counter, runVars, first>>

---------------------------------------------------------------------------
(* scrape(root): the run of the printed function *)

Bound(locals, n) == n \in DOMAIN locals
Assign(locals, n, v) == (n :> v) @@ locals

Value(v)    == [err |-> "none", v |-> v]
Failure(e)  == [err |-> e, v |-> Null]

\* the value of an expression of the program
Eval(x) ==
    IF x.e = "None" THEN Value(Null)
    ELSE IF x.e = "list" THEN Value(List(<<>>))
    ELSE IF x.e = "dict" THEN Value(Map(<<>>, <<>>))
    ELSE IF x.e = "value"
         THEN IF Bound(value, x.n) THEN Value(value[x.n]) ELSE Failure("NameError")
    ELSE IF ~Bound(element, x.n) THEN Failure("NameError")
    ELSE IF x.e = "text" THEN Value(Text(Strip(get_text(element[x.n]))))
    ELSE Value(get(element[x.n], PyLiteral(x.lit).s))

\* d[key] = v on a dict: a new key goes last, a known key keeps its place
SetItem(d, key, v) ==
    IF \E i \in 1..Len(d.keys) : d.keys[i] = key
    THEN Map(d.keys, [i \in 1..Len(d.keys) |->
                         IF d.keys[i] = key THEN v ELSE d.items[i]])
    ELSE Map(Append(d.keys, key), Append(d.items, v))

\* a loop of the run: the line of its `for` and the elements still to visit
Loop(line, rest) == [line |-> line, rest |-> rest]

TopLoop == loops[Len(loops)]

\* the body of the innermost loop is over
AtLoopEnd ==
    /\ loops # <<>>
    /\ \/ ip > Len(output)
       \/ output[ip].indent <= output[TopLoop.line].indent

\* the first line after the block the line at i opens
RECURSIVE AfterBlock(_, _, _)
AfterBlock(lines, i, j) ==
    IF j > Len(lines) \/ lines[j].indent <= lines[i].indent THEN j
    ELSE AfterBlock(lines, i, j + 1)

AtLine(op) == pc = "run" /\ ~AtLoopEnd /\ ip <= Len(output) /\ output[ip].op = op

\* the caller calls the compiled function on the document
Call ==
    /\ pc = "compiled"
    /\ pc' = "run"
    /\ ip' = 2
    /\ loops' = <<>>
    /\ value' = NoLocals
    /\ element' = NoLocals
    /\ elements' = NoLocals
    /\ UNCHANGED <<otherVars, definition, root, call, stack, contexts, counter, output,
                   error, result, first>>

\* element_1 = root
ExecBind ==
    /\ AtLine("bind")
    /\ element' = Assign(element, output[ip].n, root)
    /\ ip' = ip + 1
    /\ UNCHANGED <<otherVars, definition, root, call, pc, stack, contexts, counter, output,
                   error, loops, value, elements, result, first>>

\* value_N = <expr>
ExecAssign ==
    /\ AtLine("assign")
    /\ LET r == Eval(output[ip].expr)
       IN  IF r.err # "none"
           THEN Raise(r.err) /\ UNCHANGED <<ip, value>>
           ELSE /\ value' = Assign(value, output[ip].n, r.v)
                /\ ip' = ip + 1
                /\ UNCHANGED <<pc, error>>
    /\ UNCHANGED <<otherVars, definition, root, call, stack, contexts, counter, output,
                   loops, element, elements, result, first>>

\* value_N.append(<expr>): the list is looked up before the argument
ExecAppend ==
    /\ AtLine("append")
    /\ LET n == output[ip].n
           r == Eval(output[ip].expr)
       IN  IF ~Bound(value, n)
           THEN Raise("NameError") /\ UNCHANGED <<ip, value>>
           ELSE IF value[n].k # "List"
           THEN Raise("AttributeError") /\ UNCHANGED <<ip, value>>
           ELSE IF r.err # "none"
           THEN Raise(r.err) /\ UNCHANGED <<ip, value>>
           ELSE /\ value' = Assign(value, n, List(Append(value[n].items, r.v)))
                /\ ip' = ip + 1
                /\ UNCHANGED <<pc, error>>
    /\ UNCHANGED <<otherVars, definition, root, call, stack, contexts, counter, output,
                   loops, element, elements, result, first>>

\* value_N["""key"""] = <expr>: the right side is evaluated first
ExecSetItem ==
    /\ AtLine("setitem")
    /\ LET n == output[ip].n
           r == Eval(output[ip].expr)
       IN  IF r.err # "none"
           THEN Raise(r.err) /\ UNCHANGED <<ip, value>>
           ELSE IF ~Bound(value, n)
           THEN Raise("NameError") /\ UNCHANGED <<ip, value>>
           ELSE IF value[n].k # "Map"
           THEN Raise("TypeError") /\ UNCHANGED <<ip, value>>
           ELSE /\ value' = Assign(value, n,
                        SetItem(value[n], PyLiteral(output[ip].text).s, r.v))
                /\ ip' = ip + 1
                /\ UNCHANGED <<pc, error>>
    /\ UNCHANGED <<otherVars, definition, root, call, stack, contexts, counter, output,
                   loops, element, elements, result, first>>

\* elements_N = element_N.select("""selector""")
ExecSelect ==
    /\ AtLine("select")
    /\ LET n == output[ip].n
       IN  IF ~Bound(element, n)
           THEN Raise("NameError") /\ UNCHANGED <<ip, elements>>
           ELSE /\ elements' = Assign(elements, n,
                        select(element[n], PyLiteral(output[ip].text).s))
                /\ ip' = ip + 1
                /\ UNCHANGED <<pc, error>>
    /\ UNCHANGED <<otherVars, definition, root, call, stack, contexts, counter, output,
                   loops, value, element, result, first>>

\* for element_M in elements_N: the first element is bound and the body
\* entered, or the body is skipped when there is none
ExecFor ==
    /\ AtLine("for")
    /\ LET n == output[ip].n
           m == output[ip].m
       IN  IF ~Bound(elements, n)
           THEN Raise("NameError") /\ UNCHANGED <<ip, loops, element>>
           ELSE IF elements[n] = <<>>
           THEN /\ ip' = AfterBlock(output, ip, ip + 1)
                /\ UNCHANGED <<pc, error, loops, element>>
           ELSE /\ element' = Assign(element, m, Head(elements[n]))
                /\ loops' = Append(loops, Loop(ip, Tail(elements[n])))
                /\ ip' = ip + 1
                /\ UNCHANGED <<pc, error>>
    /\ UNCHANGED <<otherVars, definition, root, call, stack, contexts, counter, output,
                   value, elements, result, first>>

\* the end of a loop body: the next element is bound and the body entered
\* again, or the loop is left
ExecLoopNext ==
    /\ pc = "run" /\ AtLoopEnd
    /\ IF TopLoop.rest = <<>>
       THEN /\ loops' = SubSeq(loops, 1, Len(loops) - 1)
            /\ UNCHANGED <<ip, element>>
       ELSE /\ element' = Assign(element, output[TopLoop.line].m, Head(TopLoop.rest))
            /\ loops' = [loops EXCEPT ![Len(loops)].rest = Tail(TopLoop.rest)]
            /\ ip' = TopLoop.line + 1
    /\ UNCHANGED <<otherVars, definition, root, call, pc, stack, contexts, counter, output,
                   error, value, elements, result, first>>

\* return value_0
ExecReturn ==
    /\ AtLine("return")
    /\ result' = value[output[ip].n]
    /\ pc' = "returned"
    /\ UNCHANGED <<otherVars, definition, root, call, stack, contexts, counter, output,
                   error, ip, loops, value, element, elements, first>>

---------------------------------------------------------------------------
(* A second compile_scraper call on the same definition *)

\* the first call is over (it returned a value or raised); its outcome is
\* kept, and compile_scraper is called again
CompileAgain ==
    /\ call = 1
    /\ pc \in {"returned", "raised"}
    /\ first' = [set |-> TRUE, pc |-> pc, error |-> error, output |-> output,
                 result |-> result]
    /\ call' = 2
    /\ pc' = "start"
    /\ stack' = <<>>
    /\ contexts' = <<>>
    /\ output' = <<>>
    /\ error' = "none"
    /\ ip' = 0
    /\ loops' = <<>>
    /\ value' = NoLocals
    /\ element' = NoLocals
    /\ elements' = NoLocals
    /\ result' = Null
    /\ UNCHANGED <<otherVars, definition, root, counter>>

Next ==
    \/ CompileStart
    \/ RecurseDefault
    \/ RecurseAttribute
    \/ RecurseFields
    \/ RecurseField
    \/ RecurseFieldsYield
    \/ RecurseTypeError
    \/ RecurseNothing
    \/ RecurseIterator
    \/ RecurseIteratorBody
    \/ RecurseIteratorYield
    \/ CompileFinish
    \/ Call
    \/ ExecBind
    \/ ExecAssign
    \/ ExecAppend
    \/ ExecSetItem
    \/ ExecSelect
    \/ ExecFor
    \/ ExecLoopNext
    \/ ExecReturn

\* one compile_scraper call and one run of the function it returns
Spec == Init /\ [][Next]_vars

NextTwice ==
    \/ Next
    \/ CompileAgain

\* the same, followed by a second call and a second run
SpecTwice == Init /\ [][NextTwice]_vars

---------------------------------------------------------------------------
(* Concurrent calls of the compiled function *)

\* the calls of scrape that run at the same time
CallIds == {1, 2}

\* a document that is not r: the <li> that wraps an <a>, or the plain <li>
\* when r is that one
OtherRoot(r) == IF r = LiLink THEN LiPlain ELSE LiLink

\* a call of scrape(r) that is about to run the line after `def`
Activation(r) ==
    [root |-> r, pc |-> "run", error |-> "none", ip |-> 2, loops |-> <<>>,
     result |-> Null]

\* the local variables of a call that has just begun
NoVariables == [value |-> NoLocals, element |-> NoLocals, elements |-> NoLocals]

\* every name the function assigns is global to the scope it was executed
\* in: all calls read and write the variables of the first
LocalsInScope(t) == 1

\* lines 100-102, 159: value_N, element_N and elements_N are assigned in the
\* body of `def scrape`, hence local to a call: call t has its own variables
LocalsOf(t) == t

\* the value of an expression for the variables s
EvalIn(x, s) ==
    IF x.e = "None" THEN Value(Null)
    ELSE IF x.e = "list" THEN Value(List(<<>>))
    ELSE IF x.e = "dict" THEN Value(Map(<<>>, <<>>))
    ELSE IF x.e = "value"
         THEN IF Bound(s.value, x.n) THEN Value(s.value[x.n])
              ELSE Failure("NameError")
    ELSE IF ~Bound(s.element, x.n) THEN Failure("NameError")
    ELSE IF x.e = "text" THEN Value(Text(Strip(get_text(s.element[x.n]))))
    ELSE Value(get(s.element[x.n], PyLiteral(x.lit).s))

\* the outcome of a step: the activation and the variables after it
Stepped(a, s)   == [a |-> a, s |-> s]
Raised(a, s, e) == [a |-> [a EXCEPT !.pc = "raised", !.error = e], s |-> s]

\* the body of the innermost loop of the activation is over
LoopEndOf(a) ==
    /\ a.loops # <<>>
    /\ \/ a.ip > Len(output)
       \/ output[a.ip].indent <= output[a.loops[Len(a.loops)].line].indent

\* one line of the printed function, run by the activation a on the
\* variables s
StepCall(a, s) ==
    IF LoopEndOf(a)
    THEN LET top == a.loops[Len(a.loops)]
         IN  IF top.rest = <<>>
             THEN Stepped([a EXCEPT !.loops = SubSeq(a.loops, 1, Len(a.loops) - 1)], s)
             ELSE Stepped([a EXCEPT !.loops[Len(a.loops)].rest = Tail(top.rest),
                                    !.ip = top.line + 1],
                          [s EXCEPT !.element =
                               Assign(s.element, output[top.line].m, Head(top.rest))])
    ELSE LET line == output[a.ip]
             n    == line.n
             next == [a EXCEPT !.ip = a.ip + 1]
             r    == EvalIn(line.expr, s)
         IN  IF line.op = "bind"
             THEN Stepped(next, [s EXCEPT !.element = Assign(s.element, n, a.root)])
             ELSE IF line.op = "assign"
             THEN IF r.err # "none" THEN Raised(a, s, r.err)
                  ELSE Stepped(next, [s EXCEPT !.value = Assign(s.value, n, r.v)])
             ELSE IF line.op = "append"
             THEN IF ~Bound(s.value, n) THEN Raised(a, s, "NameError")
                  ELSE IF s.value[n].k # "List" THEN Raised(a, s, "AttributeError")
                  ELSE IF r.err # "none" THEN Raised(a, s, r.err)
                  ELSE Stepped(next, [s EXCEPT !.value =
                           Assign(s.value, n, List(Append(s.value[n].items, r.v)))])
             ELSE IF line.op = "setitem"
             THEN IF r.err # "none" THEN Raised(a, s, r.err)
                  ELSE IF ~Bound(s.value, n) THEN Raised(a, s, "NameError")
                  ELSE IF s.value[n].k # "Map" THEN Raised(a, s, "TypeError")
                  ELSE Stepped(next, [s EXCEPT !.value =
                           Assign(s.value, n,
                                  SetItem(s.value[n], PyLiteral(line.text).s, r.v))])
             ELSE IF line.op = "select"
             THEN IF ~Bound(s.element, n) THEN Raised(a, s, "NameError")
                  ELSE Stepped(next, [s EXCEPT !.elements =
                           Assign(s.elements, n,
                                  select(s.element[n], PyLiteral(line.text).s))])
             ELSE IF line.op = "for"
             THEN IF ~Bound(s.elements, n) THEN Raised(a, s, "NameError")
                  ELSE IF s.elements[n] = <<>>
                  THEN Stepped([a EXCEPT !.ip = AfterBlock(output, a.ip, a.ip + 1)], s)
                  ELSE Stepped([next EXCEPT !.loops =
                                    Append(a.loops, Loop(a.ip, Tail(s.elements[n])))],
                               [s EXCEPT !.element =
                                    Assign(s.element, line.m, Head(s.elements[n]))])
             ELSE Stepped([a EXCEPT !.pc = "returned", !.result = s.value[n]], s)

\* the function has been called once; now two callers call it at the same
\* time, one of them (which) on the same document, the other on another one
CallConcurrently ==
    /\ pc \in {"returned", "raised"} /\ ip > 0
    /\ call = 1
    /\ calls = NoCalls
    /\ \E which \in CallIds :
          calls' = [t \in CallIds |->
                       Activation(IF t = which THEN root ELSE OtherRoot(root))]
    /\ frames' = [t \in CallIds |-> NoVariables]
    /\ UNCHANGED <<definition, root, call, pc, stack, contexts, counter, output,
                   error, runVars, first, twitterVars, spiderVars>>

\* one of the calls runs its next line
StepOfCall ==
    /\ calls # NoCalls
    /\ \E t \in CallIds :
          /\ calls[t].pc = "run"
          /\ LET r == StepCall(calls[t], frames[LocalsOf(t)])
             IN  /\ calls' = [calls EXCEPT ![t] = r.a]
                 /\ frames' = [frames EXCEPT ![LocalsOf(t)] = r.s]
    /\ UNCHANGED <<definition, root, call, pc, stack, contexts, counter, output,
                   error, runVars, first, twitterVars, spiderVars>>

NextReentrant ==
    \/ Next
    \/ CallConcurrently
    \/ StepOfCall

\* the documents with room for one more element
SmallDocuments == {d \in Documents : Len(d.children) < MaxItems}

InitReentrant == Init /\ root \in SmallDocuments

\* a compile_scraper call, one call of its function alone, then two calls
\* of the function interleaved line by line
SpecReentrant == InitReentrant /\ [][NextReentrant]_vars

---------------------------------------------------------------------------
(* A TwitterAPIScraper and its searches *)

\* no definition is compiled
InitIdle == Init /\ definition = PyNone /\ root = LiPlain

\* a scraper is built (lines 188-190) and searched up to MaxSearches times
SpecTwitter == InitIdle /\ [][NextTwitter]_vars

\* a spider is built (lines 52-54), its trie is set and it processes
\* responses
SpecSpider == InitIdle /\ [][NextSpider]_vars

---------------------------------------------------------------------------
(* What the specification says a definition extracts *)

Done == pc \in {"returned", "raised"}

\* the function was compiled and called, and the call is over
Ran == ip > 0 /\ Done

Keys(d)        == [i \in 1..Len(d.items) |-> d.items[i].k]
HasKey(d, k)   == \E i \in 1..Len(d.items) : d.items[i].k = k
ValueAt(d, k)  == d.items[CHOOSE i \in 1..Len(d.items) : d.items[i].k = k].v

IsIteratorDef(d) == d.t = "dict" /\ HasKey(d, ITERATOR)

Blanks(n) == [i \in 1..n |-> SP]

\* t is s without the blanks at its two ends
IsTrimOf(t, s) ==
    /\ t = <<>> \/ (t[1] # SP /\ t[Len(t)] # SP)
    /\ \E i, j \in 0..Len(s) : s = Blanks(i) \o t \o Blanks(j)

Trim(s) ==
    CHOOSE t \in {SubSeq(s, i, j) : i \in 1..(Len(s) + 1), j \in 0..Len(s)} :
        IsTrimOf(t, s)

\* the value the specification (4.1, 4.3) gives a definition on an element
RECURSIVE Extract(_, _)
ExtractFields(m, e) ==
    Map(Keys(m), [i \in 1..Len(m.items) |-> Extract(m.items[i].v, e)])

ExtractBody(d, e) ==
    IF HasKey(d, FIELDS) THEN ExtractFields(ValueAt(d, FIELDS), e)
    ELSE IF HasKey(d, ITEM) THEN Extract(ValueAt(d, ITEM), e)
    ELSE Extract(PyNone, e)

Extract(d, e) ==
    IF d.t = "NoneType" \/ (d.t = "str" /\ d.s \in EXTRACTOR_NAMES)
    THEN Text(Trim(get_text(e)))
    ELSE IF d.t = "str" THEN get(e, d.s)
    ELSE IF HasKey(d, ITERATOR)
    THEN LET ms == select(e, ValueAt(d, ITERATOR).s)
         IN  List([i \in 1..Len(ms) |-> ExtractBody(d, ms[i])])
    ELSE ExtractFields(d, e)

\* the shapes 4.1 accepts
RECURSIVE WellFormed(_)
WellFormedFields(m) ==
    m.t = "dict" /\ \A i \in 1..Len(m.items) : WellFormed(m.items[i].v)

WellFormed(d) ==
    \/ d.t \in {"NoneType", "str"}
    \/ /\ d.t = "dict"
       /\ IF HasKey(d, ITERATOR)
          THEN /\ ValueAt(d, ITERATOR).t = "str"
               /\ IF HasKey(d, FIELDS) THEN WellFormedFields(ValueAt(d, FIELDS))
                  ELSE HasKey(d, ITEM) => WellFormed(ValueAt(d, ITEM))
          ELSE WellFormedFields(d)

\* no quote, backslash or brace in a string or a field name
PlainString(s) == \A i \in 1..Len(s) : s[i] \notin {Q, BS, LB, RB}

RECURSIVE PlainDef(_)
PlainDef(d) ==
    /\ PlainString(d.s)
    /\ \A i \in 1..Len(d.items) :
          PlainString(d.items[i].k) /\ PlainDef(d.items[i].v)

\* a well-formed definition written with plain strings
Sound(d) == WellFormed(d) /\ PlainDef(d)

\* the elements the root iterator of the definition matches in the document
Matches == select(root, ValueAt(definition, ITERATOR).s)

---------------------------------------------------------------------------
(* Claims *)

\* C1: for an iterator definition with selector s and body b the function
\* returns a List with one entry per element select(root, s) returns, the
\* i-th entry being the value of b on the i-th matched element.
C1_IteratorReturnsListOfBodies ==
    (IsIteratorDef(definition) /\ Sound(definition) /\ Ran) =>
        /\ pc = "returned"
        /\ result.k = "List"
        /\ Len(result.items) = Len(Matches)
        /\ \A i \in 1..Len(Matches) :
              result.items[i] = ExtractBody(definition, Matches[i])

\* C2: every Map produced for the `fields` of an iterator has exactly the
\* field names as keys, in their order, whatever the sub-specs are.
C2_MapKeysAreFieldNames ==
    (/\ IsIteratorDef(definition) /\ Sound(definition)
     /\ HasKey(definition, FIELDS)
     /\ pc = "returned" /\ result.k = "List") =>
        \A i \in 1..Len(result.items) :
            result.items[i].k = "Map" =>
                result.items[i].keys = Keys(ValueAt(definition, FIELDS))

\* a leaf, or an iterator whose body is a leaf
IsLeaf(d) == d.t \in {"NoneType", "str"}
IsLeafOrIterator(d) ==
    \/ IsLeaf(d)
    \/ /\ IsIteratorDef(d) /\ ~HasKey(d, FIELDS)
       /\ HasKey(d, ITEM) => IsLeaf(ValueAt(d, ITEM))

\* the value a Map holds at a key
MapValue(m, key) == m.items[CHOOSE i \in 1..Len(m.keys) : m.keys[i] = key]

\* C3: the value stored at each field key is the result of the field's
\* sub-spec on the same element, also when the sub-spec is an iterator, and
\* the function does not raise.
C3_FieldHoldsSubSpecValue ==
    LET fields == ValueAt(definition, FIELDS)
    IN  (/\ IsIteratorDef(definition) /\ Sound(definition)
         /\ HasKey(definition, FIELDS)
         /\ \A j \in 1..Len(fields.items) : IsLeafOrIterator(fields.items[j].v)
         /\ Ran) =>
            /\ pc = "returned"
            /\ result.k = "List" /\ Len(result.items) = Len(Matches)
            /\ \A i \in 1..Len(Matches) : \A j \in 1..Len(fields.items) :
                  /\ result.items[i].k = "Map"
                  /\ \E n \in 1..Len(result.items[i].keys) :
                        result.items[i].keys[n] = fields.items[j].k
                  /\ MapValue(result.items[i], fields.items[j].k) =
                        Extract(fields.items[j].v, Matches[i])

\* the run raised at the line that hands over the list of an iterator
\* whose selector matched nothing
RaisedAtEmptyIterator ==
    /\ pc = "raised" /\ ip \in 1..Len(output)
    /\ output[ip].expr.e = "value"
    /\ Bound(elements, output[ip].expr.n)
    /\ elements[output[ip].expr.n] = <<>>

\* C4: an iterator whose selector matches nothing yields an empty List,
\* never Null and never an error, with fields, with item or with neither.
C4_NoMatchYieldsEmptyList ==
    /\ (IsIteratorDef(definition) /\ Sound(definition) /\ Matches = <<>> /\ Ran) =>
            (pc = "returned" /\ result = List(<<>>))
    /\ Sound(definition) => ~RaisedAtEmptyIterator

\* C5: the function compiled from None or from an extractor name returns
\* the text of the element without the blanks at its two ends.
C5_DefaultLeafReturnsTrimmedText ==
    (/\ definition.t = "NoneType" \/ (definition.t = "str" /\ definition.s \in EXTRACTOR_NAMES)
     /\ Done) =>
        /\ pc = "returned"
        /\ result.k = "Text"
        /\ IsTrimOf(result.s, get_text(root))

C5_Witness ==
    /\ pc = "returned" /\ definition = PyStr(TEXT) /\ root = LiPlain
    /\ result = Text(<<"p">>)

\* C6: the function compiled from any other string A returns attribute A of
\* the element, Null when the element has none, and never raises.
C6_AttributeLeafReturnsAttribute ==
    (definition.t = "str" /\ definition.s \notin EXTRACTOR_NAMES /\ Done) =>
        /\ pc = "returned"
        /\ result = IF definition.s \in DOMAIN root.attrs
                    THEN Text(root.attrs[definition.s]) ELSE Null

\* the body the claim says an iterator has
ChosenBody(d) ==
    IF HasKey(d, FIELDS) THEN FieldsNode(ValueAt(d, FIELDS))
    ELSE IF HasKey(d, ITEM) THEN ValueAt(d, ITEM)
    ELSE PyNone

\* C7: the body of an iterator is `fields` if the key is there, else
\* `item`, else the default leaf; {iterator: s} alone compiles and yields
\* the List of the trimmed texts of the matched elements.
C7_IteratorBodyChoice ==
    /\ \A j \in 2..Len(stack) :
          stack[j - 1].at = "yield" => stack[j].node = ChosenBody(stack[j - 1].node)
    /\ (/\ IsIteratorDef(definition) /\ Len(definition.items) = 1
        /\ definition.items[1].v.t = "str" /\ PlainString(definition.items[1].v.s)
        /\ Done) =>
            /\ pc = "returned"
            /\ result = List([i \in 1..Len(Matches) |->
                                 Text(Trim(get_text(Matches[i])))])

C7_Witness ==
    /\ pc = "returned"
    /\ definition = PyDict(<<Item(ITERATOR, PyStr(LI))>>)
    /\ root.children = <<LiLink, LiPlain>>
    /\ result = List(<<Text(<<"q", "x">>), Text(<<"p">>)>>)

\* C8: a mapping without an `iterator` key is compiled as a FieldsNode: the
\* function produces a Map with one entry per field name, in the given order.
C8_MappingCompiledAsFields ==
    (/\ definition.t = "dict" /\ ~HasKey(definition, ITERATOR)
     /\ definition.items # <<>>
     /\ Sound(definition) /\ Done) =>
        /\ pc = "returned"
        /\ result.k = "Map"
        /\ result.keys = Keys(definition)

\* C9: a definition that is neither null, nor a string, nor a mapping makes
\* compile_scraper fail: no function is returned for it.
C9_MalformedNeverCompiles ==
    definition.t \notin {"NoneType", "str", "dict"} =>
        pc \notin {"compiled", "run", "returned"}

\* C10: a second compile_scraper call on the same definition starts its
\* identifiers at 0 again and prints the same program, and its function
\* returns the same value on the same document (or both calls raise the
\* same exception).
C10_Deterministic ==
    /\ (call = 2 /\ pc # "start") =>
            contexts[1].identifier = 0 /\ contexts[2].identifier = 1
    /\ (call = 2 /\ pc \in {"compiled", "run", "returned"}) =>
            output = first.output
    /\ (call = 2 /\ Done) =>
            /\ pc = first.pc
            /\ error = first.error
            /\ result = first.result
            /\ output = first.output

C10_Witness ==
    /\ call = 2 /\ pc = "returned" /\ first.pc = "returned"
    /\ IsIteratorDef(definition) /\ HasKey(definition, FIELDS)
    /\ result.k = "List" /\ Len(result.items) = 3
    /\ counter > 4

\* C11: under every interleaving of concurrent calls of the compiled
\* function, the call made on the document of the single call ends as the
\* single call did: it returns the same value or raises the same exception.
C11_Reentrant ==
    \A t \in DOMAIN calls :
        (calls[t].root = root /\ calls[t].pc # "run") =>
            /\ calls[t].pc = pc
            /\ calls[t].error = error
            /\ calls[t].result = result

\* the first call returned its two entries while the second, on another
\* document, is inside its loop
C11_Witness ==
    /\ calls # NoCalls
    /\ calls[1].root = root /\ calls[2].root # root
    /\ calls[1].pc = "returned"
    /\ calls[1].result.k = "List" /\ Len(calls[1].result.items) = 2
    /\ calls[2].pc = "run" /\ calls[2].loops # <<>>
    /\ Bound(frames[2].value, 1) /\ frames[2].value[1].k = "List"
    /\ frames[2].value[1].items # <<>>

\* the context was made by linger(): it is on the level of its parent
IsLingering(c) == c.parent # 0 /\ c.level = contexts[c.parent].level

\* C12: in one compile_scraper call every context that takes its identifier
\* from the counter (the root context, the contexts made by descend) gets a
\* value greater than every identifier given before, and a context made by
\* linger carries the identifier of the context it was made from.
C12_IdentifiersNeverRepeat ==
    \A j \in 1..Len(contexts) :
        IF IsLingering(contexts[j])
        THEN contexts[j].identifier = contexts[contexts[j].parent].identifier
        ELSE \A i \in 1..(j - 1) : contexts[i].identifier < contexts[j].identifier

\* two fields were given lingering contexts, and the context descended after
\* them skips the counter values they consumed
C12_Witness ==
    \E i, j, k \in 1..Len(contexts) :
        /\ i < j /\ j < k
        /\ IsLingering(contexts[i]) /\ IsLingering(contexts[j])
        /\ contexts[i].identifier = contexts[j].identifier
        /\ ~IsLingering(contexts[k])
        /\ contexts[k].identifier > contexts[j].identifier + 2

\* the parent of every context but the initial one has its container kind:
\* a dict for the contexts that linger, a list for those that descend
KindSetBeforeChildren ==
    \A j \in 1..Len(contexts) :
        contexts[j].parent > 1 =>
            contexts[contexts[j].parent].container_type =
                IF IsLingering(contexts[j]) THEN "dict" ELSE "list"

\* while the sub-spec of a field is walked, in a context whose parent is the
\* context of the mapping, container_key of the mapping's context is the
\* name of that field
KeyIsCurrentField ==
    \A k \in 2..Len(stack) :
        stack[k - 1].at = "fields" =>
            /\ contexts[stack[k].ctx].parent = stack[k - 1].ctx
            /\ ~contexts[stack[k - 1].ctx].container_key.isNone
            /\ contexts[stack[k - 1].ctx].container_key.k =
                  unwrap(stack[k - 1].node).items[stack[k - 1].i - 1].k

\* a step sets the container kind of a context only while it has no child,
\* and never changes a container kind that is set
KindSetOnce ==
    \A i \in 1..Len(contexts) :
        (i <= Len(contexts') /\ contexts'[i].container_type # contexts[i].container_type) =>
            /\ contexts[i].container_type = "var"
            /\ \A j \in 1..Len(contexts) : contexts[j].parent # i

\* C13: the container kind of a context is set before any context of a
\* child exists and does not change afterwards, so a child that yields to
\* its parent reads the final kind; a child of a mapping reads as
\* container_key the name of the field being compiled.
C13_ContainerKindFixed ==
    /\ [](KindSetBeforeChildren /\ KeyIsCurrentField)
    /\ [][KindSetOnce]_vars

\* the second field of a mapping is about to yield to the mapping's context
C13_Witness ==
    /\ pc = "recurse" /\ Len(stack) >= 2 /\ Top.at = "enter"
    /\ stack[Len(stack) - 1].at = "fields" /\ stack[Len(stack) - 1].i = 3
    /\ IsLingering(contexts[Top.ctx])
    /\ contexts[contexts[Top.ctx].parent].container_type = "dict"
    /\ contexts[contexts[Top.ctx].parent].container_key.k = HREF

\* C14: the loop variable of every iterator, element_N with N the
\* identifier of the iterator's context plus one, is the element variable
\* of the context descended for its body, also for an iterator that is the
\* sub-spec of a field; no element variable is unbound when the body runs.
C14_LoopVariableIsBodyElement ==
    /\ \A j \in 1..Len(contexts) :
          (contexts[j].parent > 1 /\ ~IsLingering(contexts[j])) =>
              contexts[j].identifier = contexts[contexts[j].parent].identifier + 1
    /\ ~(Ran /\ pc = "raised" /\ error = "NameError")

\* C15: every search request sent by request_search carries a guest token
\* and a cookie that are not None; when guest_token is None on entry,
\* acquire_guest_token runs first; when it fails, no search request is sent
\* and guest_token is still None.
C15_SearchRequestsCarryToken ==
    /\ last.sent =>
          last.request.guest_token # None /\ last.request.cookie # None
    /\ (last.called /\ last.entry_token = None) => last.acquire # "skipped"
    /\ last.acquire = "failed" => (~last.sent /\ scraper.guest_token = None)

\* C16: search(query, limit=n) yields at most n tweets and sends no request
\* for a page once n tweets have been yielded.
C16_LimitBoundsTweets ==
    ~search.limit.isNone =>
        /\ search.yielded <= search.limit.n
        /\ search.asked < search.limit.n

\* what process returned, against the trie it was called with
ProcessedWithin(tr) ==
    LET response == processed'.response
        returned == processed'.result
        page     == match(tr, response.end_url)
    IN  /\ returned.returned =>
              /\ response.status = 200 /\ response.is_html
              /\ page # NoMatch /\ page.status = "IN"
              /\ returned.webentity_id = page.id
        /\ ~returned.returned => returned.urls_to_follow = <<>>
        /\ \A i \in 1..Len(returned.urls_to_follow) :
              LET url == returned.urls_to_follow[i]
              IN  /\ match(tr, url) # NoMatch
                  /\ match(tr, url).status = "IN"
                  /\ match(tr, url).id = page.id
                  /\ \E j \in 1..Len(returned.links) : returned.links[j].target_url = url
        /\ \A j \in 1..Len(returned.links) :
              /\ match(tr, returned.links[j].target_url).status = "IN"
              /\ match(tr, returned.links[j].target_url).id =
                    returned.links[j].target_webentity

\* C17: process returns urls to follow only for a response with status 200
\* that is HTML and whose end url matches a webentity with status IN; every
\* url to follow matches a record with status IN and the webentity id of
\* the page, every recorded link targets a webentity with status IN, and
\* every url to follow is the target of a recorded link.
C17_FollowsOnlyInsideWebentity ==
    [][processed' # processed => ProcessedWithin(trie)]_vars

\* a page of webentity A links to its own site and to webentity B, both IN:
\* two links are recorded and one url is followed
C17_Witness ==
    /\ processed.called /\ processed.result.returned
    /\ Len(processed.result.links) = 2
    /\ processed.result.urls_to_follow = <<processed.response.end_url>>
    /\ processed.result.links[2].target_webentity # processed.result.webentity_id

====
